---- MODULE Spec2Model ----
\* Lot-based inventory allocation and billing ledger of server-IMS
\* (controllers/billController.js, utils/stockNotifications.js, models/*.js).
\*
\* Money is an integer number of mills (1/1000 of the currency unit), so that
\* roundToTwo, which rounds to hundredths, is a real rounding to a multiple of
\* 10 mills.  JavaScript doubles are modelled by exact arithmetic.
\* An optional numeric input of a request body is a sequence of length <= 1:
\* <<>> is "undefined", <<v>> is the number v.
EXTENDS Integers, Sequences, FiniteSets, TLC

\* ------------------------------------------------------------------ bounds
MaxBills == 2
MaxReqQty == 3
MaxCached == 5
MaxQuantity == 11

\* ---------------------------------------------------------- the collections
Products == {"p1", "p2"}
UnknownProduct == "p9"
Customers == {"c1", "c2"}
Batches == {"b1", "b2", "b3", "b4"}
NoBatch == "none"
Undefined == <<>>
NoValue == "undefined"

\* product_batches documents: everything but the quantity is immutable here.
\* manufacturingDate 0 stands for a missing date (sorts first in MongoDB).
BatchDoc ==
  [b \in Batches |->
     CASE b = "b1" -> [product |-> "p1", batchNumber |-> "B1", unitCost |-> 1000,
                       receivedDate |-> 2, manufacturingDate |-> 0, createdAt |-> 1]
       [] b = "b2" -> [product |-> "p1", batchNumber |-> "B2", unitCost |-> 1200,
                       receivedDate |-> 1, manufacturingDate |-> 1, createdAt |-> 3]
       [] b = "b3" -> [product |-> "p1", batchNumber |-> "B3", unitCost |-> 2506,
                       receivedDate |-> 1, manufacturingDate |-> 2, createdAt |-> 2]
       [] b = "b4" -> [product |-> "p2", batchNumber |-> "B1", unitCost |-> 500,
                       receivedDate |-> 1, manufacturingDate |-> 1, createdAt |-> 4]]

InitBatchQty == [b \in Batches |-> IF b \in {"b2", "b3"} THEN 1 ELSE 2]

\* products.reorderLevel as stored; 0 stands for a missing field
ProductReorderLevel == [p \in Products |-> IF p = "p1" THEN 2 ELSE 0]

VALID_PAYMENT_METHODS == {"cash", "card", "upi", "bank_transfer", "credit"}
VALID_PAYMENT_STATUSES == {"pending", "paid", "partial"}
DEFAULT_REORDER_LEVEL == 10
NotificationTypes == {"low-stock", "out-of-stock"}

\* ------------------------------------------------------------ pure helpers
Min(a, b) == IF a < b THEN a ELSE b
Max(a, b) == IF a > b THEN a ELSE b

RECURSIVE SumSeq(_)
SumSeq(s) == IF s = <<>> THEN 0 ELSE Head(s) + SumSeq(Tail(s))

\* Number(x) || 0 for an optional number
NumberOrZero(x) == IF x = Undefined THEN 0 ELSE x[1]

\* a ?? b
Coalesce(a, b) == IF a = Undefined THEN b ELSE a

\* Math.round(v * 100) / 100 of the rational n/d mills (d > 0): the nearest
\* multiple of 10 mills, a half rounding towards +infinity as Math.round does.
roundRatioToTwo(n, d) == ((2 * n + 10 * d) \div (20 * d)) * 10

roundToTwo(value) == roundRatioToTwo(value, 1)

\* mutant of clamp: the value is passed through
clamp_unbounded(value, min, max) == value

clamp(value, min, max) == Min(Max(value, min), max)

normalizePaymentMethod(method) ==
  IF method = "bank" THEN "bank_transfer"
  ELSE IF method \in VALID_PAYMENT_METHODS THEN method
  ELSE "cash"

normalizePaymentStatus(status) ==
  IF status \in VALID_PAYMENT_STATUSES THEN status ELSE "pending"

\* mutant of settlePayment: the caller's paid amount is kept under status 'paid'
settlePayment_keepsPaidAmount(paymentStatus, paidAmount, totalAmount) ==
  LET status0 == normalizePaymentStatus(paymentStatus)
      paid0 == roundToTwo(NumberOrZero(paidAmount))
      normalizedPaidAmount == IF paid0 > totalAmount THEN totalAmount ELSE paid0
      dueAmount == roundToTwo(Max(totalAmount - normalizedPaidAmount, 0))
  IN [paidAmount |-> normalizedPaidAmount,
      dueAmount |-> dueAmount,
      paymentStatus |-> IF status0 = "paid" /\ dueAmount > 0 THEN "partial" ELSE status0]

\* mutant of settlePayment: the requested status is reported as it came
settlePayment_trustsStatus(paymentStatus, paidAmount, totalAmount) ==
  LET paid0 == roundToTwo(NumberOrZero(paidAmount))
      normalizedPaidAmount == IF paid0 > totalAmount THEN totalAmount ELSE paid0
  IN [paidAmount |-> normalizedPaidAmount,
      dueAmount |-> roundToTwo(Max(totalAmount - normalizedPaidAmount, 0)),
      paymentStatus |-> normalizePaymentStatus(paymentStatus)]

\* the second half of calculateFinancials (lines 37-51): the paid amount, the due
\* amount and the status for a computed total
settlePayment(paymentStatus, paidAmount, totalAmount) ==
  LET status0 == normalizePaymentStatus(paymentStatus)
      paid0 == roundToTwo(NumberOrZero(paidAmount))
      paid1 == IF status0 = "paid" THEN totalAmount ELSE paid0
      normalizedPaidAmount == IF paid1 > totalAmount THEN totalAmount ELSE paid1
      dueAmount == roundToTwo(Max(totalAmount - normalizedPaidAmount, 0))
      normalizedPaymentStatus ==
        IF status0 = "paid" /\ dueAmount > 0 THEN "partial" ELSE status0
  IN [paidAmount |-> normalizedPaidAmount,
      dueAmount |-> dueAmount,
      paymentStatus |-> normalizedPaymentStatus]

\* calculateFinancials({items, discountPercent, taxPercent, paidAmount, paymentStatus})
calculateFinancials(in) ==
  LET subtotal == roundToTwo(SumSeq([i \in 1..Len(in.items) |-> roundToTwo(in.items[i].total)]))
      normalizedDiscountPercent == clamp(NumberOrZero(in.discountPercent), 0, 100)
      discountAmount == roundRatioToTwo(subtotal * normalizedDiscountPercent, 100)
      taxableBase == roundToTwo(Max(subtotal - discountAmount, 0))
      normalizedTaxPercent == clamp(NumberOrZero(in.taxPercent), 0, 100)
      taxAmount == roundRatioToTwo(taxableBase * normalizedTaxPercent, 100)
      totalAmount == roundToTwo(taxableBase + taxAmount)
      payment == settlePayment(in.paymentStatus, in.paidAmount, totalAmount)
  IN [subtotal |-> subtotal,
      discountPercent |-> normalizedDiscountPercent,
      discountAmount |-> discountAmount,
      taxPercent |-> normalizedTaxPercent,
      taxAmount |-> taxAmount,
      totalAmount |-> totalAmount,
      paidAmount |-> payment.paidAmount,
      dueAmount |-> payment.dueAmount,
      paymentStatus |-> payment.paymentStatus]

\* ------------------------------------------------------- allocation (FIFO)
RECURSIVE SetToSeq(_)
SetToSeq(S) == IF S = {} THEN <<>>
               ELSE LET x == CHOOSE y \in S : TRUE IN <<x>> \o SetToSeq(S \ {x})

\* .sort({ receivedDate: 1, manufacturingDate: 1, createdAt: 1 })
fifoBefore(a, b) ==
  LET x == BatchDoc[a]
      y == BatchDoc[b]
  IN \/ x.receivedDate < y.receivedDate
     \/ /\ x.receivedDate = y.receivedDate
        /\ x.manufacturingDate < y.manufacturingDate
     \/ /\ x.receivedDate = y.receivedDate
        /\ x.manufacturingDate = y.manufacturingDate
        /\ x.createdAt < y.createdAt

\* mutant of findBatches: the batches in insertion order (createdAt) only
findBatches_byCreatedAt(product, bq) ==
  SortSeq(SetToSeq({b \in Batches : BatchDoc[b].product = product /\ bq[b] > 0}),
          LAMBDA a, b : BatchDoc[a].createdAt < BatchDoc[b].createdAt)

\* ProductBatch.find({ product, quantity: { $gt: 0 } }).sort(...)
findBatches(product, bq) ==
  SortSeq(SetToSeq({b \in Batches : BatchDoc[b].product = product /\ bq[b] > 0}), fifoBefore)

\* ProductBatch.findOne({ product, batchNumber }): a set with at most one batch
findOneBatch(product, batchNumber) ==
  {b \in Batches : BatchDoc[b].product = product /\ BatchDoc[b].batchNumber = batchNumber}

\* mutant of lineItem: the line total is the unit price
lineItem_unitTotal(productId, quantity, price) ==
  [productId |-> productId, quantity |-> quantity, price |-> price,
   total |-> roundToTwo(price)]

\* a bill line item as itemSchema persists it (batchNumber is no path of the schema)
lineItem(productId, quantity, price) ==
  [productId |-> productId, quantity |-> quantity, price |-> price,
   total |-> roundToTwo(price * quantity)]

\* the for-loop over the sorted batches; the documents are changed in memory only
RECURSIVE fifoWalk(_, _, _, _, _)
fifoWalk(product, batches, remaining, bq, items) ==
  IF batches = <<>> \/ remaining <= 0
  THEN [remaining |-> remaining, batchQty |-> bq, items |-> items]
  ELSE LET batch == Head(batches)
           take == Min(remaining, bq[batch])
       IN IF take <= 0
          THEN fifoWalk(product, Tail(batches), remaining, bq, items)
          ELSE fifoWalk(product, Tail(batches), remaining - take,
                        [bq EXCEPT ![batch] = @ - take],
                        Append(items, lineItem(product, take, roundToTwo(BatchDoc[batch].unitCost))))

lineFailure(msg, bq, pq) ==
  [ok |-> FALSE, error |-> msg, batchQty |-> bq, productQty |-> pq, items |-> <<>>]

\* mutant of allocatePinned: the product's cached quantity is left as it was
allocatePinned_keepsCached(p, requestedQty, batchNumber, bq, pq) ==
  LET found == findOneBatch(p, batchNumber) IN
  IF found = {} THEN lineFailure("batch_not_found", bq, pq)
  ELSE LET batch == CHOOSE b \in found : TRUE IN
       IF bq[batch] < requestedQty THEN lineFailure("insufficient_batch", bq, pq)
       ELSE [ok |-> TRUE, error |-> "",
             batchQty |-> [bq EXCEPT ![batch] = @ - requestedQty],
             productQty |-> pq,
             items |-> <<lineItem(p, requestedQty, roundToTwo(BatchDoc[batch].unitCost))>>]

\* the branch of a line that names a batch (lines 187-208)
allocatePinned(p, requestedQty, batchNumber, bq, pq) ==
  LET found == findOneBatch(p, batchNumber) IN
  IF found = {} THEN lineFailure("batch_not_found", bq, pq)
  ELSE LET batch == CHOOSE b \in found : TRUE IN
       IF bq[batch] < requestedQty THEN lineFailure("insufficient_batch", bq, pq)
       ELSE [ok |-> TRUE, error |-> "",
             batchQty |-> [bq EXCEPT ![batch] = @ - requestedQty],
             productQty |-> [pq EXCEPT ![p] = @ - requestedQty],
             items |-> <<lineItem(p, requestedQty, roundToTwo(BatchDoc[batch].unitCost))>>]

\* mutant of allocateFifo: the batches are saved as the walk goes
allocateFifo_savesPartial(p, requestedQty, bq, pq) ==
  LET w == fifoWalk(p, findBatches(p, bq), requestedQty, bq, <<>>) IN
  IF w.remaining > 0 THEN lineFailure("insufficient_batches", w.batchQty, pq)
  ELSE [ok |-> TRUE, error |-> "",
        batchQty |-> w.batchQty,
        productQty |-> [pq EXCEPT ![p] = @ - requestedQty],
        items |-> w.items]

\* the branch of a line that names no batch (lines 209-234): the walk changes
\* the documents in memory, and the throw comes before any of them is saved
allocateFifo(p, requestedQty, bq, pq) ==
  LET w == fifoWalk(p, findBatches(p, bq), requestedQty, bq, <<>>) IN
  IF w.remaining > 0 THEN lineFailure("insufficient_batches", bq, pq)
  ELSE [ok |-> TRUE, error |-> "",
        batchQty |-> w.batchQty,
        productQty |-> [pq EXCEPT ![p] = @ - SumSeq([i \in 1..Len(w.items) |-> w.items[i].quantity])],
        items |-> w.items]

\* One iteration of createBill's loop over payload.items, from the stored
\* quantities bq/pq: either an error with the quantities the iteration left in
\* the store, or the quantities as saved by lines 236-237 and the line items pushed.
allocateLine(reqItem, bq, pq) ==
  LET p == reqItem.productId
      requestedQty == reqItem.quantity
  IN IF p = "" THEN lineFailure("product_id_required", bq, pq)
     ELSE IF requestedQty <= 0 THEN lineFailure("quantity_not_positive", bq, pq)
     ELSE IF p \notin Products THEN lineFailure("invalid_product", bq, pq)
     ELSE IF pq[p] < requestedQty THEN lineFailure("insufficient_product", bq, pq)
     ELSE IF reqItem.batchNumber # NoBatch
     THEN allocatePinned(p, requestedQty, reqItem.batchNumber, bq, pq)
     ELSE allocateFifo(p, requestedQty, bq, pq)

\* createBill's loop over payload.items: every line is saved before the next
\* one is read, so a failing line leaves the earlier lines' writes in place.
RECURSIVE allocateItems(_, _, _, _, _, _)
allocateItems(reqItems, index, bq, pq, items, updated) ==
  IF index > Len(reqItems)
  THEN [ok |-> TRUE, error |-> "", batchQty |-> bq, productQty |-> pq,
        items |-> items, updatedProducts |-> updated]
  ELSE LET r == allocateLine(reqItems[index], bq, pq) IN
       IF ~r.ok
       THEN [ok |-> FALSE, error |-> r.error, batchQty |-> r.batchQty,
             productQty |-> r.productQty, items |-> items, updatedProducts |-> updated]
       ELSE allocateItems(reqItems, index + 1, r.batchQty, r.productQty,
                          items \o r.items, updated \cup {reqItems[index].productId})

\* ------------------------------------------------------ stock notifications
\* unread notifications: notif[<<productId, type>>] is the number of documents
\* { productId, type, isRead: false }
getReorderLevel(product) ==
  LET value == ProductReorderLevel[product]
  IN IF value <= 0 THEN DEFAULT_REORDER_LEVEL ELSE value

\* mutant of upsertNotification: a document is inserted on every call
upsertNotification_inserts(notif, productId, type) ==
  [notif EXCEPT ![<<productId, type>>] = @ + 1]

\* findOneAndUpdate(filter, ..., { upsert: true }): refreshes one match, inserts if none
upsertNotification(notif, productId, type) ==
  [notif EXCEPT ![<<productId, type>>] = IF @ = 0 THEN 1 ELSE @]

\* deleteMany({ productId, type: { $in: types }, isRead: false })
clearNotifications(notif, productId, types) ==
  [k \in DOMAIN notif |-> IF k[1] = productId /\ k[2] \in types THEN 0 ELSE notif[k]]

\* mutant of handleStockNotifications: a quantity equal to the reorder level is
\* not low
handleStockNotifications_strictBoundary(notif, product, newQuantity) ==
  IF newQuantity = 0
  THEN clearNotifications(upsertNotification(notif, product, "out-of-stock"),
                          product, {"low-stock"})
  ELSE IF newQuantity < getReorderLevel(product)
  THEN clearNotifications(upsertNotification(notif, product, "low-stock"),
                          product, {"out-of-stock"})
  ELSE clearNotifications(notif, product, {"low-stock", "out-of-stock"})

handleStockNotifications(notif, product, newQuantity) ==
  LET reorderLevel == getReorderLevel(product)
  IN IF newQuantity = 0
     THEN clearNotifications(upsertNotification(notif, product, "out-of-stock"),
                             product, {"low-stock"})
     ELSE IF newQuantity <= reorderLevel
     THEN clearNotifications(upsertNotification(notif, product, "low-stock"),
                             product, {"out-of-stock"})
     ELSE clearNotifications(notif, product, {"low-stock", "out-of-stock"})

\* the type handleStockNotifications upserts for a quantity (lines 49-73);
\* NoValue when the quantity is above the reorder level
upsertedType(product, newQuantity) ==
  IF newQuantity = 0 THEN "out-of-stock"
  ELSE IF newQuantity <= getReorderLevel(product) THEN "low-stock"
  ELSE NoValue

\* mutant of clearedTypes: the low-stock branch leaves the out-of-stock
\* notification in place
clearedTypes_lowKeepsOutOfStock(product, newQuantity) ==
  IF newQuantity = 0 THEN {"low-stock"}
  ELSE IF newQuantity <= getReorderLevel(product) THEN {}
  ELSE {"low-stock", "out-of-stock"}

\* the types its closing clearNotifications call deletes (lines 58, 71, 75)
clearedTypes(product, newQuantity) ==
  IF newQuantity = 0 THEN {"low-stock"}
  ELSE IF newQuantity <= getReorderLevel(product) THEN {"out-of-stock"}
  ELSE {"low-stock", "out-of-stock"}

\* Promise.all over the touched products, each re-read from the store; run to
\* completion the calls touch disjoint notifications, so their order is immaterial
notifyProducts(notif, productIds, pq) ==
  [k \in DOMAIN notif |->
     IF k[1] \in productIds /\ k[1] \in Products
     THEN handleStockNotifications(notif, k[1], pq[k[1]])[k]
     ELSE notif[k]]

\* ------------------------------------------------------------------- bills

\* billSchema / itemSchema validators that a computed bill can fail
billValid(doc) ==
  /\ doc.subtotal >= 0 /\ doc.taxAmount >= 0 /\ doc.discount >= 0
  /\ doc.totalAmount >= 0 /\ doc.paidAmount >= 0 /\ doc.dueAmount >= 0
  /\ doc.paymentStatus \in VALID_PAYMENT_STATUSES
  /\ doc.paymentMethod \in VALID_PAYMENT_METHODS
  /\ \A i \in 1..Len(doc.items) : doc.items[i].quantity >= 1 /\ doc.items[i].price >= 0

\* billSchema.pre('validate'): the number after the most recently created bill's.
\* `bills` is kept in creation order; "BILL-" + padStart(6) and parseInt of the
\* part after the dash are inverse on positive integers, the number is kept.
nextBillNumber(bills) ==
  IF bills = <<>> THEN 1 ELSE bills[Len(bills)].billNumber + 1

\* _id of a new document: an ObjectId, never given twice; here the count of the
\* bills inserted so far, plus one
nextBillId(db) == db.created + 1

response(op, status, error, billId, req) ==
  [op |-> op, status |-> status, error |-> error, billId |-> billId, req |-> req]

\* new Bill({...}) of createBill, with the fields the pre-validate hook fills in
newBill(req, db, items, financials) ==
  [id |-> nextBillId(db),
   billNumber |-> nextBillNumber(db.bills),
   customerId |-> req.customerId,
   items |-> items,
   subtotal |-> financials.subtotal,
   taxAmount |-> financials.taxAmount,
   discount |-> financials.discountAmount,
   totalAmount |-> financials.totalAmount,
   paymentStatus |-> financials.paymentStatus,
   paymentMethod |-> normalizePaymentMethod(req.paymentMethod),
   paidAmount |-> financials.paidAmount,
   dueAmount |-> financials.dueAmount]

\* mutant of chargeCustomer: only credit bills are charged
chargeCustomer_creditOnly(balance, bill) ==
  IF bill.paymentMethod = "credit"
  THEN [balance EXCEPT ![bill.customerId] = @ + bill.dueAmount]
  ELSE balance

\* Customer.findByIdAndUpdate(customerId, { $inc: { outstandingBalance: dueAmount } })
\* when the bill is on credit or not fully paid
chargeCustomer(balance, bill) ==
  IF bill.paymentMethod = "credit" \/ bill.paymentStatus # "paid"
  THEN [balance EXCEPT ![bill.customerId] = @ + bill.dueAmount]
  ELSE balance

\* bill.save() and what follows it; `db` already holds the stock writes of the item loop
saveNewBill(req, db, updatedProducts, bill) ==
  IF ~billValid(bill)
  THEN [db |-> db, resp |-> response("create", 400, "validation_error", 0, req)]
  ELSE IF \E i \in 1..Len(db.bills) : db.bills[i].billNumber = bill.billNumber
  THEN [db |-> db, resp |-> response("create", 400, "duplicate_entry", 0, req)]
  ELSE [db |-> [db EXCEPT !.bills = Append(@, bill),
                          !.balance = chargeCustomer(@, bill),
                          !.notifications = notifyProducts(@, updatedProducts, db.productQty)],
        resp |-> response("create", 201, "", bill.id, req)]

\* createBill after the item loop returned `a`; the loop's saves are in the store
\* whether or not it failed
billFromAllocation(req, db, a) ==
  IF ~a.ok
  THEN [db |-> [db EXCEPT !.batchQty = a.batchQty, !.productQty = a.productQty],
        resp |-> response("create", 400, a.error, 0, req)]
  ELSE saveNewBill(req, [db EXCEPT !.batchQty = a.batchQty, !.productQty = a.productQty],
                   a.updatedProducts,
                   newBill(req, db, a.items,
                           calculateFinancials(
                             [items |-> a.items, discountPercent |-> req.discountPercent,
                              taxPercent |-> req.taxPercent, paidAmount |-> req.paidAmount,
                              paymentStatus |-> req.paymentStatus])))

\* exports.createBill, run to completion on the store `db`
\* (db = [batchQty, productQty, balance, bills, notifications])
createBill(req, db) ==
  IF req.customerId = "" THEN [db |-> db, resp |-> response("create", 400, "customer_id_required", 0, req)]
  ELSE IF req.customerId \notin Customers
  THEN [db |-> db, resp |-> response("create", 400, "invalid_customer", 0, req)]
  ELSE IF req.items = <<>>
  THEN [db |-> db, resp |-> response("create", 400, "no_items", 0, req)]
  ELSE billFromAllocation(req, db,
         allocateItems(req.items, 1, db.batchQty, db.productQty, <<>>, {}))

\* ------------------------------------------------------------- updateBill
\* the keys of adjustmentMap in insertion order (a Map iterates in that order)
RECURSIVE adjustmentKeys(_, _)
adjustmentKeys(productIds, seen) ==
  IF productIds = <<>> THEN <<>>
  ELSE IF Head(productIds) \in seen THEN adjustmentKeys(Tail(productIds), seen)
  ELSE <<Head(productIds)>> \o adjustmentKeys(Tail(productIds), seen \cup {Head(productIds)})

quantityOf(items, productId) ==
  SumSeq([i \in 1..Len(items) |->
            IF items[i].productId = productId THEN items[i].quantity ELSE 0])

\* mutant of adjustmentDelta: the original lines are not given back
adjustmentDelta_ignoresOriginal(originalItems, items, productId) ==
  0 - quantityOf(items, productId)

\* mutant of adjustmentDelta: the signs are the other way round
adjustmentDelta_swapped(originalItems, items, productId) ==
  quantityOf(items, productId) - quantityOf(originalItems, productId)

\* applyAdjustment: + every original line's quantity, - every new line's quantity
adjustmentDelta(originalItems, items, productId) ==
  quantityOf(originalItems, productId) - quantityOf(items, productId)

\* mutant of adjustmentError: a quantity below zero is let through
adjustmentError_allowsNegative(productId, pq, delta) ==
  IF productId \notin Products THEN "product_missing" ELSE ""

\* the two checks on a product whose quantity changes (lines 379-386; "" = passes)
adjustmentError(productId, pq, delta) ==
  IF productId \notin Products THEN "product_missing"
  ELSE IF pq[productId] + delta < 0 THEN "insufficient_product"
  ELSE ""

\* the loop over adjustmentMap.entries(): each product is saved before the next
\* one is read, so a failure leaves the earlier products' writes in place
RECURSIVE applyAdjustments(_, _, _, _, _)
applyAdjustments(keys, originalItems, items, pq, updated) ==
  IF keys = <<>> THEN [ok |-> TRUE, error |-> "", productQty |-> pq, updatedProducts |-> updated]
  ELSE LET productId == Head(keys)
           delta == adjustmentDelta(originalItems, items, productId)
       IN IF delta = 0 THEN applyAdjustments(Tail(keys), originalItems, items, pq, updated)
          ELSE IF adjustmentError(productId, pq, delta) # ""
          THEN [ok |-> FALSE, error |-> adjustmentError(productId, pq, delta),
                productQty |-> pq, updatedProducts |-> updated]
          ELSE applyAdjustments(Tail(keys), originalItems, items,
                                [pq EXCEPT ![productId] = @ + delta],
                                updated \cup {productId})

\* existingBill.discountPercent / existingBill.taxPercent: billSchema declares no
\* such path, so the stored document has none and the read gives undefined
existingPercent(bill) == Undefined

\* mutant of outstandingDelta: the old due amount is not taken back
outstandingDelta_none(existingBill) == 0

\* const outstandingDelta = roundToTwo(existingBill.dueAmount * -1)
outstandingDelta(existingBill) == roundToTwo(existingBill.dueAmount * (-1))

\* the checks of one item of payload.items in updateBill's loop ("" = passes)
editItemError(item) ==
  IF item.productId = "" THEN "product_id_required"
  ELSE IF item.quantity <= 0 THEN "quantity_not_positive"
  ELSE IF roundToTwo(NumberOrZero(item.price)) < 0 THEN "price_negative"
  ELSE ""

\* the first error of updateBill's loop over payload.items ("" = none)
firstItemError(req) ==
  IF \A i \in 1..Len(req.items) : editItemError(req.items[i]) = "" THEN ""
  ELSE editItemError(req.items[
         CHOOSE i \in 1..Len(req.items) :
           /\ editItemError(req.items[i]) # ""
           /\ \A j \in 1..(i - 1) : editItemError(req.items[j]) = ""])

\* the items that loop pushes (lines 347-373)
editItems(req) ==
  [i \in 1..Len(req.items) |->
     lineItem(req.items[i].productId, req.items[i].quantity,
              roundToTwo(NumberOrZero(req.items[i].price)))]

\* the keys of adjustmentMap after the original and the new items were applied
editKeys(originalItems, items) ==
  adjustmentKeys([i \in 1..Len(originalItems) |-> originalItems[i].productId]
                 \o [i \in 1..Len(items) |-> items[i].productId], {})

\* calculateFinancials as updateBill calls it (lines 393-399)
editFinancials(req, existingBill, items) ==
  calculateFinancials(
    [items |-> items,
     discountPercent |-> Coalesce(req.discountPercent, existingPercent(existingBill)),
     taxPercent |-> Coalesce(req.taxPercent, existingPercent(existingBill)),
     paidAmount |-> Coalesce(req.paidAmount, <<existingBill.paidAmount>>),
     paymentStatus |-> IF req.paymentStatus = NoValue
                       THEN existingBill.paymentStatus
                       ELSE req.paymentStatus])

\* the bill as Bill.findByIdAndUpdate writes it (lines 404-423)
editedBill(req, existingBill, items, financials) ==
  [existingBill EXCEPT
     !.items = items,
     !.subtotal = financials.subtotal,
     !.taxAmount = financials.taxAmount,
     !.discount = financials.discountAmount,
     !.totalAmount = financials.totalAmount,
     !.paidAmount = financials.paidAmount,
     !.dueAmount = financials.dueAmount,
     !.paymentStatus = financials.paymentStatus,
     !.paymentMethod = normalizePaymentMethod(
                         IF req.paymentMethod = NoValue
                         THEN existingBill.paymentMethod
                         ELSE req.paymentMethod)]

\* updateBill from Bill.findByIdAndUpdate on; `db` already holds the product
\* saves of the adjustment loop
saveEditedBill(req, db, at, updatedProducts, updatedBill) ==
  IF ~billValid(updatedBill)
  THEN [db |-> db, resp |-> response("update", 400, "validation_error", req.billId, req)]
  ELSE [db |-> [db EXCEPT
                  !.bills[at] = updatedBill,
                  !.balance[updatedBill.customerId] =
                     @ + (outstandingDelta(db.bills[at]) + updatedBill.dueAmount),
                  !.notifications = notifyProducts(@, updatedProducts, db.productQty)],
        resp |-> response("update", 200, "", req.billId, req)]

\* mutant of billFromAdjustments: the units an edit gives back are also added to
\* the product's batch 'B1'
billFromAdjustments_restocksBatches(req, db, at, items, a) ==
  IF ~a.ok
  THEN [db |-> [db EXCEPT !.productQty = a.productQty],
        resp |-> response("update", 400, a.error, req.billId, req)]
  ELSE saveEditedBill(req,
                      [db EXCEPT
                         !.productQty = a.productQty,
                         !.batchQty = [b \in Batches |->
                            IF BatchDoc[b].batchNumber = "B1"
                            THEN db.batchQty[b]
                                   + Max(a.productQty[BatchDoc[b].product]
                                           - db.productQty[BatchDoc[b].product], 0)
                            ELSE db.batchQty[b]]],
                      at, a.updatedProducts,
                      editedBill(req, db.bills[at], items,
                                 editFinancials(req, db.bills[at], items)))

\* updateBill after the adjustment loop returned `a`; the loop's saves are in
\* the store whether or not it failed
billFromAdjustments(req, db, at, items, a) ==
  IF ~a.ok
  THEN [db |-> [db EXCEPT !.productQty = a.productQty],
        resp |-> response("update", 400, a.error, req.billId, req)]
  ELSE saveEditedBill(req, [db EXCEPT !.productQty = a.productQty], at, a.updatedProducts,
                      editedBill(req, db.bills[at], items,
                                 editFinancials(req, db.bills[at], items)))

\* updateBill once the bill was found at position `at` of the collection
editFound(req, db, at, items) ==
  IF req.items = <<>>
  THEN [db |-> db, resp |-> response("update", 400, "no_items", req.billId, req)]
  ELSE IF firstItemError(req) # ""
  THEN [db |-> db, resp |-> response("update", 400, firstItemError(req), req.billId, req)]
  ELSE billFromAdjustments(req, db, at, items,
         applyAdjustments(editKeys(db.bills[at].items, items), db.bills[at].items, items,
                          db.productQty, {}))

\* exports.updateBill, run to completion on the store `db`
updateBill(req, db) ==
  IF \A i \in 1..Len(db.bills) : db.bills[i].id # req.billId
  THEN [db |-> db, resp |-> response("update", 404, "bill_not_found", req.billId, req)]
  ELSE editFound(req, db, CHOOSE i \in 1..Len(db.bills) : db.bills[i].id = req.billId,
                 editItems(req))

\* mutant of deleteBill: the customer's balance is reduced by the bill's due amount
deleteBill_reversesBalance(req, db) ==
  LET found == {i \in 1..Len(db.bills) : db.bills[i].id = req.billId} IN
  IF found = {} THEN [db |-> db, resp |-> response("delete", 404, "bill_not_found", req.billId, req)]
  ELSE LET at == CHOOSE i \in found : TRUE IN
       [db |-> [db EXCEPT !.bills = SubSeq(@, 1, at - 1) \o SubSeq(@, at + 1, Len(@)),
                          !.balance[db.bills[at].customerId] = @ - db.bills[at].dueAmount],
        resp |-> response("delete", 200, "", req.billId, req)]

\* exports.deleteBill: Bill.findByIdAndDelete and nothing else
deleteBill(req, db) ==
  LET found == {i \in 1..Len(db.bills) : db.bills[i].id = req.billId} IN
  IF found = {} THEN [db |-> db, resp |-> response("delete", 404, "bill_not_found", req.billId, req)]
  ELSE LET at == CHOOSE i \in found : TRUE IN
       [db |-> [db EXCEPT !.bills = SubSeq(@, 1, at - 1) \o SubSeq(@, at + 1, Len(@))],
        resp |-> response("delete", 200, "", req.billId, req)]

\* ------------------------------------------------------------------ state
VARIABLES
  batchQty,       \* product_batches: quantity of each batch
  productQty,     \* products: cached quantity of each product
  balance,        \* customers: outstandingBalance
  bills,          \* bills, in creation order
  notifications,  \* unread notifications per <<product, type>>
  resp,           \* the last request handled and the response sent for it
  billInputs,     \* history: the financial inputs last applied to each stored bill
  replay,         \* history: the last request was an updateBill that sent a stored
                  \* bill's items and financial inputs back as they were
  proc,           \* concurrent createBill requests: position and local variables
  finIn,          \* argument of a calculateFinancials call
  finOut,         \* its result
  issued          \* history: the bill numbers given to created bills, in order

vars == <<batchQty, productQty, balance, bills, notifications, resp, billInputs, replay,
         proc, finIn, finOut, issued>>

Store == [batchQty |-> batchQty, productQty |-> productQty, balance |-> balance,
          bills |-> bills, notifications |-> notifications, created |-> Len(issued)]

\* sum of the quantities of a product's batches
batchSum(bq, product) ==
  LET own == SetToSeq({b \in Batches : BatchDoc[b].product = product})
  IN SumSeq([i \in 1..Len(own) |-> bq[own[i]]])

FinFields == {"discountPercent", "taxPercent", "paidAmount", "paymentStatus", "paymentMethod"}

NoInputs == [discountPercent |-> Undefined, taxPercent |-> Undefined,
             paidAmount |-> Undefined, paymentStatus |-> NoValue,
             paymentMethod |-> NoValue]

NoRequest == [customerId |-> "", billId |-> 0, items |-> <<>>] @@ NoInputs

inputsOf(req) == [f \in FinFields |-> req[f]]

\* the call of calculateFinancials with no items and no inputs, and its result
NoCall == [items |-> <<>>] @@ NoInputs

NoFinancials == calculateFinancials(NoCall)

InitStore ==
  /\ batchQty = InitBatchQty
  /\ productQty = [p \in Products |-> batchSum(InitBatchQty, p)]
  /\ balance = [c \in Customers |-> 0]
  /\ bills = <<>>
  /\ notifications = notifyProducts([k \in Products \X NotificationTypes |-> 0], Products,
                                    [p \in Products |-> batchSum(InitBatchQty, p)])
  /\ resp = response("none", 0, "", 0, NoRequest)
  /\ billInputs = <<>>
  /\ replay = FALSE

\* the requests served concurrently
Procs == {"r1", "r2"}

\* a request that has not arrived: no position in createBill, no local variables
Idle == [pc |-> "idle", op |-> "none", req |-> NoRequest, product |-> 0, batches |-> InitBatchQty,
         batchesToSave |-> {}, items |-> <<>>, billNumber |-> 0, bill |-> 0,
         existingBill |-> [id |-> 0], keys |-> <<>>, updatedProducts |-> {},
         status |-> 0, error |-> ""]

Init ==
  /\ InitStore
  /\ proc = [self \in Procs |-> Idle]
  /\ issued = <<>>
  /\ finIn = NoCall
  /\ finOut = NoFinancials

\* ------------------------------------------------------- request domains
fifoLine(productId, quantity) ==
  [productId |-> productId, quantity |-> quantity, batchNumber |-> NoBatch]

pinnedLine(productId, quantity, batchNumber) ==
  [productId |-> productId, quantity |-> quantity, batchNumber |-> batchNumber]

editLine(productId, quantity, price) ==
  [productId |-> productId, quantity |-> quantity, price |-> price]

\* the stored items sent back as they are
resend(items) ==
  [i \in 1..Len(items) |-> editLine(items[i].productId, items[i].quantity, <<items[i].price>>)]

storedIds == {bills[i].id : i \in 1..Len(bills)}
MissingBillId == 99

\* requests of the allocation scenarios: item lists of one or two lines
AllocLines ==
  {fifoLine("p1", q) : q \in 1..MaxReqQty}
  \cup {fifoLine("p2", 1), fifoLine("p2", MaxReqQty)}
  \cup {pinnedLine("p1", 1, "B1")}
  \cup {fifoLine("p1", 0), fifoLine(UnknownProduct, 1)}

AllocFirstLines == {fifoLine("p1", 1), fifoLine("p2", 1)}

AllocSecondLines ==
  {fifoLine("p1", 2), fifoLine("p1", MaxReqQty), fifoLine("p2", MaxReqQty),
   fifoLine("p1", 0), fifoLine(UnknownProduct, 1)}

AllocCreateRequests ==
  {[customerId |-> "c1", items |-> its] @@ NoInputs :
     its \in {<<l>> : l \in AllocLines}
             \cup {<<a, b>> : a \in AllocFirstLines, b \in AllocSecondLines}}

AllocUpdateRequests ==
  {[billId |-> id, items |-> <<editLine("p1", 1, <<1000>>)>>] @@ NoInputs : id \in storedIds}

\* requests of the ledger scenarios: one-line bills, varied financial inputs
\* (every combination of 'credit' or not with 'paid' or not)
LedgerInputs ==
  { NoInputs,
    [NoInputs EXCEPT !.paymentStatus = "paid", !.paidAmount = <<10>>],
    [NoInputs EXCEPT !.paymentStatus = "paid", !.paymentMethod = "credit"],
    [NoInputs EXCEPT !.paymentStatus = "partial", !.paidAmount = <<504>>,
                     !.discountPercent = <<10>>, !.taxPercent = <<18>>,
                     !.paymentMethod = "credit"] }

\* the other customer's requests
OtherInputs == {NoInputs}

inputsFor(customerId) == IF customerId = "c1" THEN LedgerInputs ELSE OtherInputs

LedgerCreateRequests ==
  {[customerId |-> "c1", items |-> <<fifoLine("p1", 1)>>] @@ in : in \in LedgerInputs}
  \cup {[customerId |-> "c2", items |-> <<fifoLine("p1", 1)>>] @@ in : in \in OtherInputs}
  \cup {[customerId |-> "c9", items |-> <<fifoLine("p1", 1)>>] @@ NoInputs}

LedgerUpdateRequests ==
  UNION {{[billId |-> bills[i].id, items |-> its] @@ in :
            its \in {resend(bills[i].items), <<editLine("p1", 2, <<1000>>)>>},
            in \in inputsFor(bills[i].customerId)} : i \in 1..Len(bills)}
  \cup {[billId |-> MissingBillId, items |-> <<editLine("p1", 1, <<1000>>)>>] @@ NoInputs}

\* arguments of calculateFinancials: item lists as its two callers build them
\* (rounded, non-negative line totals), percentages inside and outside [0,100],
\* paid amounts absent, negative, below, equal to and above the totals, and
\* statuses inside and outside the enum
FinItems ==
  {<<>>,
   <<[total |-> 1000]>>,
   <<[total |-> 1200], [total |-> 2510]>>,
   <<[total |-> 330], [total |-> 330], [total |-> 350]>>}

FinPercents == {Undefined, <<-5>>, <<0>>, <<10>>, <<33>>, <<100>>, <<150>>}

FinPaidAmounts == {Undefined, <<-500>>, <<0>>, <<504>>, <<1000>>, <<1005>>, <<1000000>>}

FinStatuses == {NoValue, "pending", "paid", "partial", "settled"}

FinInputs ==
  {[items |-> its, discountPercent |-> d, taxPercent |-> t, paidAmount |-> pa,
    paymentStatus |-> st] :
     its \in FinItems, d \in FinPercents, t \in FinPercents,
     pa \in FinPaidAmounts, st \in FinStatuses}

\* ------------------------------------------------------------- operations
Apply(out) ==
  /\ batchQty' = out.db.batchQty
  /\ productQty' = out.db.productQty
  /\ balance' = out.db.balance
  /\ bills' = out.db.bills
  /\ notifications' = out.db.notifications
  /\ resp' = out.resp

\* POST /bills
CreateBill(req) ==
  /\ Len(bills) < MaxBills
  /\ \E out \in {createBill(req, Store)} :
     /\ Apply(out)
     /\ billInputs' = IF out.resp.status = 201 THEN Append(billInputs, inputsOf(req))
                      ELSE billInputs
  /\ replay' = FALSE
  /\ issued' = IF Len(bills') > Len(bills)
               THEN Append(issued, bills'[Len(bills')].billNumber) ELSE issued
  /\ UNCHANGED <<proc, finIn, finOut>>

\* the request sends the items and the financial inputs of a stored bill back
isReplay(req) ==
  \E i \in 1..Len(bills) :
    /\ bills[i].id = req.billId
    /\ req.items = resend(bills[i].items)
    /\ inputsOf(req) = billInputs[i]

\* PUT /bills/:id
UpdateBill(req) ==
  /\ \E out \in {updateBill(req, Store)} :
     /\ \A p \in Products : out.db.productQty[p] <= MaxCached
     /\ Apply(out)
     /\ billInputs' = IF out.resp.status = 200
                      THEN [i \in 1..Len(bills) |->
                              IF bills[i].id = req.billId THEN inputsOf(req) ELSE billInputs[i]]
                      ELSE billInputs
  /\ replay' = isReplay(req)
  /\ UNCHANGED <<proc, finIn, finOut, issued>>

\* DELETE /bills/:id
DeleteBill(req) ==
  /\ \E out \in {deleteBill(req, Store)} :
     /\ Apply(out)
     /\ billInputs' = [i \in 1..Len(out.db.bills) |->
                         billInputs[CHOOSE j \in 1..Len(bills) : bills[j].id = out.db.bills[i].id]]
  /\ replay' = FALSE
  /\ UNCHANGED <<proc, finIn, finOut, issued>>

\* one call of calculateFinancials; the function keeps no state between calls,
\* so a behaviour makes one call
Calculate(in) ==
  /\ finIn = NoCall
  /\ finIn' = in
  /\ finOut' = calculateFinancials(in)
  /\ UNCHANGED <<batchQty, productQty, balance, bills, notifications, resp, billInputs, replay,
                 proc, issued>>

NextAlloc ==
  \/ \E req \in AllocCreateRequests : CreateBill(req)
  \/ \E req \in AllocUpdateRequests : UpdateBill(req)

SpecAlloc == Init /\ [][NextAlloc]_vars

NextLedger ==
  \/ \E req \in LedgerCreateRequests : CreateBill(req)
  \/ \E req \in LedgerUpdateRequests : UpdateBill(req)

SpecLedger == Init /\ [][NextLedger]_vars

\* bills created and deleted
DeleteRequests ==
  {[billId |-> id] : id \in storedIds \cup {MissingBillId}}

\* one bill with an amount due and one paid in full, for c1; one for c2
DeleteCreateRequests ==
  {[customerId |-> c, items |-> <<fifoLine("p1", 1)>>] @@ NoInputs : c \in Customers}
  \cup {[customerId |-> "c1", items |-> <<fifoLine("p1", 1)>>]
          @@ [NoInputs EXCEPT !.paymentStatus = "paid"]}

NextDelete ==
  \/ \E req \in DeleteCreateRequests : CreateBill(req)
  \/ \E req \in DeleteRequests : DeleteBill(req)

SpecDelete == Init /\ [][NextDelete]_vars

\* ------------------------------------- createBill, one database call per step
\* Requests of one line that names no batch, all on product p1. Each step is
\* the code up to and including the next awaited database call; the calls of
\* different requests interleave freely.
ConcRequests ==
  {[customerId |-> "c1", items |-> <<fifoLine("p1", q)>>] @@ NoInputs : q \in 1..MaxReqQty}

Go(self, next) == proc' = [proc EXCEPT ![self] = next]

Throw(self, error) == Go(self, [proc[self] EXCEPT !.pc = "done", !.status = 400, !.error = error])

\* the request arrives; Customer.findById (line 152) finds the customer
Receive(self, req) ==
  /\ proc[self].pc = "idle"
  /\ Go(self, [proc[self] EXCEPT !.pc = "findProduct", !.op = "create", !.req = req])
  /\ UNCHANGED <<batchQty, productQty, balance, bills, notifications, resp, billInputs, replay,
                 finIn, finOut, issued>>

\* Product.findById and the check on the cached quantity (lines 175-182)
FindProduct(self) ==
  /\ proc[self].pc = "findProduct"
  /\ LET line == proc[self].req.items[1] IN
     IF productQty[line.productId] < line.quantity
     THEN Throw(self, "insufficient_product")
     ELSE Go(self, [proc[self] EXCEPT !.pc = "findBatches",
                                     !.product = productQty[line.productId]])
  /\ UNCHANGED <<batchQty, productQty, balance, bills, notifications, resp, billInputs, replay,
                 finIn, finOut, issued>>

\* ProductBatch.find(...).sort(...) and the walk over the documents read
\* (lines 209-234): the quantities are changed in the request's own copies
FindBatches(self) ==
  /\ proc[self].pc = "findBatches"
  /\ LET line == proc[self].req.items[1] IN
     \E w \in {fifoWalk(line.productId, findBatches(line.productId, batchQty),
                        line.quantity, batchQty, <<>>)} :
       IF w.remaining > 0
       THEN Throw(self, "insufficient_batches")
       ELSE Go(self, [proc[self] EXCEPT
                        !.pc = "saveBatches",
                        !.batches = w.batchQty,
                        !.batchesToSave = {b \in Batches : w.batchQty[b] # batchQty[b]},
                        !.items = w.items,
                        !.product = @ - (line.quantity - w.remaining)])
  /\ UNCHANGED <<batchQty, productQty, balance, bills, notifications, resp, billInputs, replay,
                 finIn, finOut, issued>>

\* Promise.all(batchesToSave.map(b => b.save())) (line 236): each save sets the
\* stored quantity to the value in the request's copy
SaveBatches(self) ==
  /\ proc[self].pc = "saveBatches"
  /\ batchQty' = [b \in Batches |->
                    IF b \in proc[self].batchesToSave THEN proc[self].batches[b]
                    ELSE batchQty[b]]
  /\ Go(self, [proc[self] EXCEPT !.pc = "saveProduct"])
  /\ UNCHANGED <<productQty, balance, bills, notifications, resp, billInputs, replay,
                 finIn, finOut, issued>>

\* product.save() (line 237): sets the stored quantity to the request's copy
SaveProduct(self) ==
  /\ proc[self].pc = "saveProduct"
  /\ productQty' = [productQty EXCEPT ![proc[self].req.items[1].productId] = proc[self].product]
  /\ Go(self, [proc[self] EXCEPT !.pc = "billNumber"])
  /\ UNCHANGED <<batchQty, balance, bills, notifications, resp, billInputs, replay,
                 finIn, finOut, issued>>

\* bill.save(), first half: the pre-validate hook reads the last bill's number
BillNumber(self) ==
  /\ proc[self].pc = "billNumber"
  /\ Go(self, [proc[self] EXCEPT !.pc = "saveBill", !.billNumber = nextBillNumber(bills)])
  /\ UNCHANGED <<batchQty, productQty, balance, bills, notifications, resp, billInputs, replay,
                 finIn, finOut, issued>>

\* the bill of a request as createBill builds it (lines 241-264), with the
\* number its hook computed
billOf(self) ==
  [newBill(proc[self].req, Store, proc[self].items,
           calculateFinancials(
             [items |-> proc[self].items,
              discountPercent |-> proc[self].req.discountPercent,
              taxPercent |-> proc[self].req.taxPercent,
              paidAmount |-> proc[self].req.paidAmount,
              paymentStatus |-> proc[self].req.paymentStatus]))
   EXCEPT !.billNumber = proc[self].billNumber]

\* bill.save(), second half: validation and the insert under the unique index
\* on billNumber
SaveBill(self) ==
  /\ proc[self].pc = "saveBill"
  /\ \E bill \in {billOf(self)} :
       IF ~billValid(bill)
       THEN Throw(self, "validation_error") /\ UNCHANGED <<bills, billInputs, issued>>
       ELSE IF \E i \in 1..Len(bills) : bills[i].billNumber = bill.billNumber
       THEN Throw(self, "duplicate_entry") /\ UNCHANGED <<bills, billInputs, issued>>
       ELSE /\ bills' = Append(bills, bill)
            /\ billInputs' = Append(billInputs, inputsOf(proc[self].req))
            /\ issued' = Append(issued, bill.billNumber)
            /\ Go(self, [proc[self] EXCEPT !.pc = "incBalance", !.bill = bill.id])
  /\ UNCHANGED <<batchQty, productQty, balance, notifications, resp, replay, finIn, finOut>>

\* the stored bill a request inserted
storedBill(self) == bills[CHOOSE i \in 1..Len(bills) : bills[i].id = proc[self].bill]

\* Customer.findByIdAndUpdate with $inc (lines 268-274)
IncBalance(self) ==
  /\ proc[self].pc = "incBalance"
  /\ balance' = chargeCustomer(balance, storedBill(self))
  /\ Go(self, [proc[self] EXCEPT !.pc = "notify"])
  /\ UNCHANGED <<batchQty, productQty, bills, notifications, resp, billInputs, replay,
                 finIn, finOut, issued>>

\* notifyProducts (line 276) and the 201 response
Notify(self) ==
  /\ proc[self].pc = "notify"
  /\ notifications' = notifyProducts(notifications, {proc[self].req.items[1].productId},
                                     productQty)
  /\ Go(self, [proc[self] EXCEPT !.pc = "done", !.status = 201])
  /\ UNCHANGED <<batchQty, productQty, balance, bills, resp, billInputs, replay,
                 finIn, finOut, issued>>

NextConc ==
  \E self \in Procs :
    \/ \E req \in ConcRequests : Receive(self, req)
    \/ FindProduct(self)
    \/ FindBatches(self)
    \/ SaveBatches(self)
    \/ SaveProduct(self)
    \/ BillNumber(self)
    \/ SaveBill(self)
    \/ IncBalance(self)
    \/ Notify(self)

SpecConc == Init /\ [][NextConc]_vars

\* ------------------------------------------------ the notifier on its own
\* handleStockNotifications(product, q), run to completion. The request keeps
\* whether the call repeats the one before it.
HandleStock(product, q) ==
  /\ notifications' = handleStockNotifications(notifications, product, q)
  /\ resp' = response("notify", 0, "", 0,
                      [productId |-> product, quantity |-> q,
                       again |-> /\ resp.op = "notify"
                                 /\ resp.req.productId = product
                                 /\ resp.req.quantity = q])
  /\ UNCHANGED <<batchQty, productQty, balance, bills, billInputs, replay, proc, finIn, finOut, issued>>

\* PATCH /notifications/:id/read on an unread stock notification
MarkRead(product, type) ==
  /\ notifications[<<product, type>>] > 0
  /\ notifications' = [notifications EXCEPT ![<<product, type>>] = @ - 1]
  /\ resp' = response("markRead", 200, "", 0, [productId |-> product, type |-> type])
  /\ UNCHANGED <<batchQty, productQty, balance, bills, billInputs, replay, proc, finIn, finOut, issued>>

NextNotify ==
  \/ \E product \in Products, q \in 0..MaxQuantity : HandleStock(product, q)
  \/ \E product \in Products, type \in {"low-stock", "out-of-stock"} : MarkRead(product, type)

SpecNotify == Init /\ [][NextNotify]_vars

\* ------------------------------------- updateBill, one database call per step
\* the store after one sale of two units of p1 to c1, run to completion
FirstSale ==
  createBill([customerId |-> "c1", items |-> <<fifoLine("p1", 2)>>] @@ NoInputs,
             [batchQty |-> InitBatchQty,
              productQty |-> [p \in Products |-> batchSum(InitBatchQty, p)],
              balance |-> [c \in Customers |-> 0],
              bills |-> <<>>,
              notifications |-> notifyProducts([k \in Products \X NotificationTypes |-> 0],
                                               Products,
                                               [p \in Products |-> batchSum(InitBatchQty, p)]),
              created |-> 0])

InitEdit ==
  /\ batchQty = FirstSale.db.batchQty
  /\ productQty = FirstSale.db.productQty
  /\ balance = FirstSale.db.balance
  /\ bills = FirstSale.db.bills
  /\ notifications = FirstSale.db.notifications
  /\ resp = FirstSale.resp
  /\ billInputs = <<NoInputs>>
  /\ replay = FALSE
  /\ proc = [self \in Procs |-> Idle]
  /\ finIn = NoCall
  /\ finOut = NoFinancials
  /\ issued = <<FirstSale.db.bills[1].billNumber>>

\* edits of the stored bills: another quantity of p1, or p1 and p2
ConcEditRequests ==
  {[billId |-> id, items |-> its] @@ NoInputs :
     id \in storedIds,
     its \in {<<editLine("p1", q, <<1000>>)>> : q \in 1..MaxReqQty}
             \cup {<<editLine("p1", 1, <<1000>>), editLine("p2", MaxReqQty, <<500>>)>>}}

\* the request arrives
ReceiveEdit(self, req) ==
  /\ proc[self].pc = "idle"
  /\ Go(self, [proc[self] EXCEPT !.pc = "findBill", !.op = "update", !.req = req])
  /\ UNCHANGED <<batchQty, productQty, balance, bills, notifications, resp, billInputs, replay,
                 finIn, finOut, issued>>

\* Bill.findById, Customer.findById and the loop over payload.items (lines 315-373)
FindBill(self) ==
  /\ proc[self].pc = "findBill"
  /\ LET req == proc[self].req IN
     IF \A i \in 1..Len(bills) : bills[i].id # req.billId
     THEN Go(self, [proc[self] EXCEPT !.pc = "done", !.status = 404, !.error = "bill_not_found"])
     ELSE IF req.items = <<>> THEN Throw(self, "no_items")
     ELSE IF firstItemError(req) # "" THEN Throw(self, firstItemError(req))
     ELSE \E existingBill \in {bills[i] : i \in {j \in 1..Len(bills) : bills[j].id = req.billId}} :
            Go(self, [proc[self] EXCEPT
                        !.pc = "findEditProduct",
                        !.existingBill = existingBill,
                        !.items = editItems(req),
                        !.keys = editKeys(existingBill.items, editItems(req))])
  /\ UNCHANGED <<batchQty, productQty, balance, bills, notifications, resp, billInputs, replay,
                 finIn, finOut, issued>>

\* the adjustment of the product at the head of the request's remaining keys
deltaOf(self) ==
  adjustmentDelta(proc[self].existingBill.items, proc[self].items, Head(proc[self].keys))

\* the loop over adjustmentMap.entries() up to its next Product.findById
\* (lines 375-386): entries of 0 are skipped without a database call
FindEditProduct(self) ==
  /\ proc[self].pc = "findEditProduct"
  /\ IF proc[self].keys = <<>>
     THEN Go(self, [proc[self] EXCEPT !.pc = "saveEdit"])
     ELSE IF deltaOf(self) = 0
     THEN Go(self, [proc[self] EXCEPT !.keys = Tail(@)])
     ELSE IF adjustmentError(Head(proc[self].keys), productQty, deltaOf(self)) # ""
     THEN Throw(self, adjustmentError(Head(proc[self].keys), productQty, deltaOf(self)))
     ELSE Go(self, [proc[self] EXCEPT
                      !.pc = "saveEditProduct",
                      !.product = productQty[Head(proc[self].keys)] + deltaOf(self)])
  /\ UNCHANGED <<batchQty, productQty, balance, bills, notifications, resp, billInputs, replay,
                 finIn, finOut, issued>>

\* product.save() (line 389): sets the stored quantity to the request's copy
SaveEditProduct(self) ==
  /\ proc[self].pc = "saveEditProduct"
  /\ productQty' = [productQty EXCEPT ![Head(proc[self].keys)] = proc[self].product]
  /\ Go(self, [proc[self] EXCEPT !.pc = "findEditProduct",
                                 !.keys = Tail(@),
                                 !.updatedProducts = @ \cup {Head(proc[self].keys)}])
  /\ UNCHANGED <<batchQty, balance, bills, notifications, resp, billInputs, replay,
                 finIn, finOut, issued>>

\* the bill a request writes, from the bill it read at its start
editedBillOf(self) ==
  editedBill(proc[self].req, proc[self].existingBill, proc[self].items,
             editFinancials(proc[self].req, proc[self].existingBill, proc[self].items))

\* Bill.findByIdAndUpdate with runValidators (lines 404-423)
SaveEdit(self) ==
  /\ proc[self].pc = "saveEdit"
  /\ IF ~billValid(editedBillOf(self))
     THEN Throw(self, "validation_error") /\ UNCHANGED <<bills, billInputs>>
     ELSE /\ bills' = [i \in 1..Len(bills) |->
                         IF bills[i].id = proc[self].req.billId THEN editedBillOf(self)
                         ELSE bills[i]]
          /\ billInputs' = [i \in 1..Len(bills) |->
                              IF bills[i].id = proc[self].req.billId
                              THEN inputsOf(proc[self].req) ELSE billInputs[i]]
          /\ Go(self, [proc[self] EXCEPT !.pc = "incEdit"])
  /\ UNCHANGED <<batchQty, productQty, balance, notifications, resp, replay,
                 finIn, finOut, issued>>

\* Customer.findByIdAndUpdate with $inc (lines 425-429)
IncEdit(self) ==
  /\ proc[self].pc = "incEdit"
  /\ balance' = [balance EXCEPT ![proc[self].existingBill.customerId] =
                   @ + (outstandingDelta(proc[self].existingBill)
                        + editedBillOf(self).dueAmount)]
  /\ Go(self, [proc[self] EXCEPT !.pc = "notifyEdit"])
  /\ UNCHANGED <<batchQty, productQty, bills, notifications, resp, billInputs, replay,
                 finIn, finOut, issued>>

\* notifyProducts (line 431) and the 200 response
NotifyEdit(self) ==
  /\ proc[self].pc = "notifyEdit"
  /\ notifications' = notifyProducts(notifications, proc[self].updatedProducts, productQty)
  /\ Go(self, [proc[self] EXCEPT !.pc = "done", !.status = 200])
  /\ UNCHANGED <<batchQty, productQty, balance, bills, resp, billInputs, replay,
                 finIn, finOut, issued>>

\* createBill and updateBill requests served concurrently
NextEdit ==
  \E self \in Procs :
    \/ \E req \in ConcRequests : Receive(self, req)
    \/ FindProduct(self)
    \/ FindBatches(self)
    \/ SaveBatches(self)
    \/ SaveProduct(self)
    \/ BillNumber(self)
    \/ SaveBill(self)
    \/ IncBalance(self)
    \/ Notify(self)
    \/ \E req \in ConcEditRequests : ReceiveEdit(self, req)
    \/ FindBill(self)
    \/ FindEditProduct(self)
    \/ SaveEditProduct(self)
    \/ SaveEdit(self)
    \/ IncEdit(self)
    \/ NotifyEdit(self)

SpecEdit == InitEdit /\ [][NextEdit]_vars

\* --------------------------------------------- database calls that reject
\* An error that is neither an httpError, a ValidationError, a CastError nor a
\* duplicate key falls through the catch block to the 500 response
\* (lines 283-310 and 437-450).
Reject(self, error) ==
  Go(self, [proc[self] EXCEPT !.pc = "done", !.status = 500, !.error = error])

\* createBill's Customer.findByIdAndUpdate rejects; the call is made for a bill
\* on credit or not fully paid
IncBalanceRejects(self) ==
  /\ proc[self].pc = "incBalance"
  /\ storedBill(self).paymentMethod = "credit" \/ storedBill(self).paymentStatus # "paid"
  /\ Reject(self, "balance_update_failed")
  /\ UNCHANGED <<batchQty, productQty, balance, bills, notifications, resp, billInputs, replay,
                 finIn, finOut, issued>>

\* a database call of notifyProducts rejects at the end of createBill
NotifyRejects(self) ==
  /\ proc[self].pc = "notify"
  /\ Reject(self, "notification_failed")
  /\ UNCHANGED <<batchQty, productQty, balance, bills, notifications, resp, billInputs, replay,
                 finIn, finOut, issued>>

\* updateBill's Customer.findByIdAndUpdate rejects
IncEditRejects(self) ==
  /\ proc[self].pc = "incEdit"
  /\ Reject(self, "balance_update_failed")
  /\ UNCHANGED <<batchQty, productQty, balance, bills, notifications, resp, billInputs, replay,
                 finIn, finOut, issued>>

\* a database call of notifyProducts rejects at the end of updateBill; the
\* notifier makes none for an empty set of products
NotifyEditRejects(self) ==
  /\ proc[self].pc = "notifyEdit"
  /\ proc[self].updatedProducts # {}
  /\ Reject(self, "notification_failed")
  /\ UNCHANGED <<batchQty, productQty, balance, bills, notifications, resp, billInputs, replay,
                 finIn, finOut, issued>>

\* a createBill whose bill fails the schema's validators: a negative paid amount
InvalidRequests ==
  {[customerId |-> "c1", items |-> <<fifoLine("p1", 1)>>]
     @@ [NoInputs EXCEPT !.paidAmount = <<-500>>]}

NextFault ==
  \/ NextEdit
  \/ \E self \in Procs :
       \/ \E req \in InvalidRequests : Receive(self, req)
       \/ IncBalanceRejects(self)
       \/ NotifyRejects(self)
       \/ IncEditRejects(self)
       \/ NotifyEditRejects(self)

SpecFault == InitEdit /\ [][NextFault]_vars

\* ------------------------------------ the other writers of product.quantity
\* quantities sent by the requests: 0, the two reorder levels, and around them
StockQuantities == {0, 1, ProductReorderLevel["p1"], DEFAULT_REORDER_LEVEL, MaxQuantity}

\* PUT /products/:id with a quantity (productController.js, updateProduct): the
\* notifier runs when the quantity differs from the stored one, then the save
UpdateProduct(product, quantity) ==
  /\ productQty' = [productQty EXCEPT ![product] = quantity]
  /\ notifications' = IF productQty[product] # quantity
                      THEN handleStockNotifications(notifications, product, quantity)
                      ELSE notifications
  /\ resp' = response("updateProduct", 200, "", 0,
                      [productId |-> product, quantity |-> quantity])
  /\ UNCHANGED <<batchQty, balance, bills, billInputs, replay, proc, finIn, finOut, issued>>

\* the quantity updateProductQuantity computes for an operation
newQuantityFor(operation, stored, quantity) ==
  IF operation = "add" THEN stored + quantity
  ELSE IF operation = "subtract" THEN stored - quantity
  ELSE quantity

\* PATCH /products/:id/quantity (updateProductQuantity): save, then the notifier
UpdateProductQuantity(product, operation, quantity) ==
  LET newQuantity == newQuantityFor(operation, productQty[product], quantity) IN
  /\ newQuantity <= MaxQuantity
  /\ IF newQuantity < 0
     THEN /\ resp' = response("updateProductQuantity", 400, "quantity_negative", 0,
                              [productId |-> product, quantity |-> quantity,
                               operation |-> operation])
          /\ UNCHANGED <<productQty, notifications>>
     ELSE /\ productQty' = [productQty EXCEPT ![product] = newQuantity]
          /\ notifications' = handleStockNotifications(notifications, product, newQuantity)
          /\ resp' = response("updateProductQuantity", 200, "", 0,
                              [productId |-> product, quantity |-> quantity,
                               operation |-> operation])
  /\ UNCHANGED <<batchQty, balance, bills, billInputs, replay, proc, finIn, finOut, issued>>

\* bulkUpdateProducts with updateData.quantity: Product.updateMany and the response
BulkUpdateProducts(productIds, quantity) ==
  /\ productQty' = [p \in Products |-> IF p \in productIds THEN quantity ELSE productQty[p]]
  /\ resp' = response("bulkUpdateProducts", 200, "", 0,
                      [productIds |-> productIds, quantity |-> quantity])
  /\ UNCHANGED <<batchQty, balance, bills, notifications, billInputs, replay, proc,
                 finIn, finOut, issued>>

\* addInwardToInventory for an inward of one item of an existing product
\* (inwardController.js:711-728): product.quantity += receivedQuantity, save
AddInwardToInventory(product, receivedQuantity) ==
  /\ productQty[product] + receivedQuantity <= MaxQuantity
  /\ productQty' = [productQty EXCEPT ![product] = @ + receivedQuantity]
  /\ resp' = response("addInwardToInventory", 200, "", 0,
                      [productId |-> product, quantity |-> receivedQuantity])
  /\ UNCHANGED <<batchQty, balance, bills, notifications, billInputs, replay, proc,
                 finIn, finOut, issued>>

StockCreateRequests ==
  {[customerId |-> "c1", items |-> <<fifoLine(p, 1)>>] @@ NoInputs : p \in Products}

StockUpdateRequests ==
  {[billId |-> id, items |-> <<editLine("p1", MaxReqQty, <<1000>>)>>] @@ NoInputs :
     id \in storedIds}

NextStock ==
  \/ \E req \in StockCreateRequests : CreateBill(req)
  \/ \E req \in StockUpdateRequests : UpdateBill(req)
  \/ \E product \in Products, quantity \in StockQuantities : UpdateProduct(product, quantity)
  \/ \E product \in Products, operation \in {"set", "add", "subtract"}, quantity \in {1, MaxQuantity} :
       UpdateProductQuantity(product, operation, quantity)
  \/ \E productIds \in {{"p1"}, Products}, quantity \in {0, MaxQuantity} :
       BulkUpdateProducts(productIds, quantity)
  \/ \E product \in Products : AddInwardToInventory(product, MaxQuantity)

SpecStock == Init /\ [][NextStock]_vars

NextFin == \E in \in FinInputs : Calculate(in)

SpecFin == Init /\ [][NextFin]_vars

\* ------------------------------------- sales and edits, with pinned batches
\* a line of a createBill request that also carries a price, as a client that
\* reuses the edit form sends it; createBill never reads it
pricedLine(productId, quantity, batchNumber, price) ==
  [productId |-> productId, quantity |-> quantity, batchNumber |-> batchNumber,
   price |-> price]

CallerPrice == <<9990>>
MissingBatchNumber == "B9"

SaleLines ==
  {pricedLine("p1", q, bn, CallerPrice) : q \in 1..MaxReqQty, bn \in {NoBatch, "B1"}}
  \cup {pricedLine("p1", 1, "B3", CallerPrice),
        pricedLine("p1", 1, MissingBatchNumber, CallerPrice),
        pricedLine("p2", 1, NoBatch, CallerPrice)}

SaleCreateRequests ==
  {[customerId |-> "c1", items |-> its] @@ NoInputs :
     its \in {<<l>> : l \in SaleLines}
             \cup {<<pricedLine("p2", 1, NoBatch, CallerPrice),
                     pricedLine("p1", 1, "B1", CallerPrice)>>,
                   <<pricedLine("p1", 2, NoBatch, CallerPrice),
                     pricedLine("p1", 1, "B1", CallerPrice)>>}}

\* the edit that takes more units of p1 for a stored bill
SaleUpdateRequests ==
  {[billId |-> id, items |-> <<editLine("p1", MaxReqQty, <<1000>>)>>] @@ NoInputs :
     id \in storedIds}

NextSale ==
  \/ \E req \in SaleCreateRequests : CreateBill(req)
  \/ \E req \in SaleUpdateRequests : UpdateBill(req)

SpecSale == Init /\ [][NextSale]_vars

\* ------------------------------------------------- edits of a stored bill
\* edits of the bill of the first sale (two units of p1): fewer or more units of
\* p1, p1 together with more of p2 than there is, a product that no longer
\* exists after p2, and an edit whose bill fails the validators (a negative
\* paid amount)
ReconcileEdits ==
  {<<editLine("p1", q, <<1000>>)>> : q \in 1..MaxReqQty}
  \cup {<<editLine("p1", 1, <<1000>>), editLine("p2", MaxReqQty, <<500>>)>>,
        <<editLine("p2", 1, <<500>>), editLine(UnknownProduct, 1, <<500>>)>>}

ReconcileUpdateRequests ==
  {[billId |-> id, items |-> its] @@ NoInputs :
     id \in storedIds \cup {MissingBillId}, its \in ReconcileEdits}
  \cup {[billId |-> id, items |-> <<editLine("p1", 1, <<1000>>)>>]
          @@ [NoInputs EXCEPT !.paidAmount = <<-500>>] : id \in storedIds}

NextReconcile == \E req \in ReconcileUpdateRequests : UpdateBill(req)

SpecReconcile == InitEdit /\ [][NextReconcile]_vars

\* --------------------------- the notifier, one database call per step
\* handleStockNotifications(product, q) is called with the quantity its caller
\* read; the calls of different requests interleave between database calls,
\* and a request whose call is over may be followed by another
CallNotifier(self, product, q) ==
  /\ proc[self].pc \in {"idle", "done"}
  /\ Go(self, [proc[self] EXCEPT
                 !.pc = IF upsertedType(product, q) = NoValue THEN "clear" ELSE "upsert",
                 !.op = "notify",
                 !.req = [productId |-> product, quantity |-> q]])
  /\ UNCHANGED <<batchQty, productQty, balance, bills, notifications, resp, billInputs, replay,
                 finIn, finOut, issued>>

\* await upsertNotification(...) (lines 50-57, 63-70)
UpsertStep(self) ==
  /\ proc[self].pc = "upsert"
  /\ notifications' = upsertNotification(notifications, proc[self].req.productId,
                        upsertedType(proc[self].req.productId, proc[self].req.quantity))
  /\ Go(self, [proc[self] EXCEPT !.pc = "clear"])
  /\ UNCHANGED <<batchQty, productQty, balance, bills, resp, billInputs, replay,
                 finIn, finOut, issued>>

\* await clearNotifications(...) (lines 58, 71, 75) and the return
ClearStep(self) ==
  /\ proc[self].pc = "clear"
  /\ notifications' = clearNotifications(notifications, proc[self].req.productId,
                        clearedTypes(proc[self].req.productId, proc[self].req.quantity))
  /\ Go(self, [proc[self] EXCEPT !.pc = "done"])
  /\ UNCHANGED <<batchQty, productQty, balance, bills, resp, billInputs, replay,
                 finIn, finOut, issued>>

NextNotifyConc ==
  \E self \in Procs :
    \/ \E product \in Products, q \in StockQuantities : CallNotifier(self, product, q)
    \/ UpsertStep(self)
    \/ ClearStep(self)

SpecNotifyConc == Init /\ [][NextNotifyConc]_vars

\* ------------------------------------------------------------ properties
lastBill == bills[Len(bills)]

batchesOf(product) == {b \in Batches : BatchDoc[b].product = product}

\* the items of a bill that are of one product, in the bill's order
RECURSIVE itemsOf(_, _)
itemsOf(items, product) ==
  IF items = <<>> THEN <<>>
  ELSE IF Head(items).productId = product
       THEN <<Head(items)>> \o itemsOf(Tail(items), product)
       ELSE itemsOf(Tail(items), product)

\* A successful POST /bills step, seen at line i of the request, a line that
\* names no batch and is the only line of its product: the batches were
\* consumed first-received first, and the bill has one line item per consumed
\* batch, in that order, priced by price(batch).
FifoStep(i, price(_)) ==
  LET line == resp'.req.items[i]
      p == line.productId
      own == batchesOf(p)
      consumed == SortSeq(SetToSeq({b \in own : batchQty'[b] < batchQty[b]}), fifoBefore)
      billed == itemsOf(bills'[Len(bills')].items, p)
  IN /\ \A b \in own : batchQty'[b] <= batchQty[b]
     /\ \A a \in own, b \in own :
          (fifoBefore(a, b) /\ batchQty'[b] < batchQty[b]) => batchQty'[a] = 0
     /\ SumSeq([k \in 1..Len(consumed) |-> batchQty[consumed[k]] - batchQty'[consumed[k]]])
          = line.quantity
     /\ Len(billed) = Len(consumed)
     /\ \A k \in 1..Len(consumed) :
          /\ billed[k].quantity = batchQty[consumed[k]] - batchQty'[consumed[k]]
          /\ billed[k].price = price(consumed[k])

FifoLinesOf(req) ==
  {i \in 1..Len(req.items) :
     /\ req.items[i].batchNumber = NoBatch
     /\ \A j \in 1..Len(req.items) : j # i => req.items[j].productId # req.items[i].productId}

unitCostOf(b) == BatchDoc[b].unitCost
roundedUnitCostOf(b) == roundToTwo(BatchDoc[b].unitCost)

\* C1 (as stated): a successful createBill line that names no batch consumes the
\* product's batches in ascending (receivedDate, manufacturingDate, createdAt)
\* order, draining every consumed batch but the last, and the bill gets one line
\* item per consumed batch, in that order, with the quantity taken and the
\* batch's unit cost.
C1_FifoUnitCost ==
  [][(resp'.op = "create" /\ resp'.status = 201)
       => \A i \in FifoLinesOf(resp'.req) : FifoStep(i, unitCostOf)]_vars

\* C1 (amended): the same, the line item's price being the batch's unit cost
\* rounded to two decimals.
C1_FifoRoundedCost ==
  [][(resp'.op = "create" /\ resp'.status = 201)
       => \A i \in FifoLinesOf(resp'.req) : FifoStep(i, roundedUnitCostOf)]_vars

\* C1 witness: one line of 3 units of p1 was sold from all three of its batches,
\* the first two drained and the last left with stock.
C1_Witness ==
  /\ resp.op = "create" /\ resp.status = 201
  /\ resp.req.items = <<fifoLine("p1", 3)>>
  /\ Len(lastBill.items) = 3
  /\ batchQty["b2"] = 0 /\ batchQty["b3"] = 0 /\ batchQty["b1"] = 1

\* C2: a one-line createBill that names no batch and asks for more than the
\* product's batches hold is answered 400 and leaves every batch quantity and
\* the cached product quantities as they were.
C2_InsufficientLeavesStock ==
  [][(/\ resp'.op = "create"
      /\ Len(resp'.req.items) = 1
      /\ resp'.req.customerId \in Customers
      /\ resp'.req.items[1].batchNumber = NoBatch
      /\ resp'.req.items[1].productId \in Products
      /\ resp'.req.items[1].quantity > 0
      /\ batchSum(batchQty, resp'.req.items[1].productId) < resp'.req.items[1].quantity)
       => (/\ resp'.status = 400
           /\ batchQty' = batchQty
           /\ productQty' = productQty
           /\ bills' = bills)]_vars

\* C2 witness: the cached quantity covered the request and the batches ran out
\* during the walk.
C2_Witness ==
  /\ resp.op = "create" /\ resp.status = 400
  /\ resp.error = "insufficient_batches"
  /\ Len(resp.req.items) = 1
  /\ productQty[resp.req.items[1].productId] >= resp.req.items[1].quantity
  /\ batchSum(batchQty, resp.req.items[1].productId) > 0

\* C3: a createBill that fails on one of its lines persists no bill and leaves
\* the batch and product quantities of every line as they were.
C3_FailedBillLeavesStock ==
  [][(/\ resp'.op = "create"
      /\ resp'.status = 400
      /\ resp'.error \in {"product_id_required", "quantity_not_positive", "invalid_product",
                          "insufficient_product", "batch_not_found", "insufficient_batch",
                          "insufficient_batches"})
       => (bills' = bills /\ batchQty' = batchQty /\ productQty' = productQty)]_vars


\* C5: every record returned by calculateFinancials satisfies
\* total = subtotal - discountAmount + taxAmount, 0 <= discountAmount <= subtotal,
\* dueAmount = max(total - paidAmount, 0) and paidAmount <= total, whatever the
\* percentages and the paid amount of the call.
C5_FinancialRecord ==
  /\ finOut.totalAmount = finOut.subtotal - finOut.discountAmount + finOut.taxAmount
  /\ 0 <= finOut.discountAmount
  /\ finOut.discountAmount <= finOut.subtotal
  /\ finOut.dueAmount = Max(finOut.totalAmount - finOut.paidAmount, 0)
  /\ finOut.paidAmount <= finOut.totalAmount

\* C5 witness: a call with a discount above 100, a tax below 0 and a paid amount
\* above the total, on items that have a value.
C5_Witness ==
  /\ finIn.discountPercent = <<150>>
  /\ finIn.taxPercent = <<-5>>
  /\ finIn.paidAmount = <<1000000>>
  /\ finOut.subtotal = 3710
  /\ finOut.discountAmount = 3710
  /\ finOut.paidAmount = 0

\* C6: a call of calculateFinancials with status 'paid' returns a paid amount
\* equal to the returned total and a due amount of 0, whatever paid amount came in.
C6_PaidForcesFullPayment ==
  finIn.paymentStatus = "paid"
    => (finOut.paidAmount = finOut.totalAmount /\ finOut.dueAmount = 0)

\* C6 witness: status 'paid' with a paid amount below the total.
C6_Witness ==
  /\ finIn.paymentStatus = "paid"
  /\ finIn.paidAmount = <<504>>
  /\ finOut.totalAmount > 504
  /\ finOut.paidAmount = finOut.totalAmount

\* the output side of C7, on single calls of calculateFinancials
PaidOutputHasNoDue == finOut.paymentStatus = "paid" => finOut.dueAmount = 0

\* C7: no stored bill has status 'paid' together with a due amount above 0,
\* after any sequence of createBill and updateBill.
C7_PaidBillHasNoDue ==
  \A i \in 1..Len(bills) : bills[i].paymentStatus = "paid" => bills[i].dueAmount = 0

\* C7 witness: a bill edited with status 'paid' and a paid amount below its total.
C7_Witness ==
  /\ resp.op = "update" /\ resp.status = 200
  /\ resp.req.paymentStatus = "paid"
  /\ resp.req.paidAmount = <<10>>
  /\ \E i \in 1..Len(bills) :
       /\ bills[i].id = resp.billId
       /\ bills[i].paymentStatus = "paid"
       /\ bills[i].totalAmount > 10

\* C8: a successful createBill raises the customer's outstanding balance by the
\* new bill's due amount and leaves every other customer's balance alone.
C8_CreateChargesDue ==
  [][(resp'.op = "create" /\ resp'.status = 201)
       => /\ Len(bills') = Len(bills) + 1
          /\ \A c \in Customers :
               balance'[c] = balance[c]
                 + (IF c = bills'[Len(bills')].customerId
                    THEN bills'[Len(bills')].dueAmount ELSE 0)]_vars

\* C8 witness: a second bill with an amount due, for a customer who owed already.
C8_Witness ==
  /\ resp.op = "create" /\ resp.status = 201
  /\ Len(bills) = 2
  /\ lastBill.customerId = "c1"
  /\ lastBill.paymentMethod = "cash"
  /\ lastBill.dueAmount > 0
  /\ balance["c1"] > lastBill.dueAmount
  /\ balance["c2"] = 0

\* the due amounts of the stored bills of one customer, summed
dueOf(customerId) ==
  SumSeq([i \in 1..Len(bills) |->
            IF bills[i].customerId = customerId THEN bills[i].dueAmount ELSE 0])

\* C9: through createBill and any number of updateBill on the bill, with bills
\* of other customers in between, what a customer owes beyond the balance before
\* the first create (0) is the current due amount of the customer's bills.
C9_BalanceIsDueAmount ==
  \A c \in Customers : balance[c] = dueOf(c)

\* C9 witness: a bill of c1 edited to another due amount while c2 has a bill.
C9_Witness ==
  /\ resp.op = "update" /\ resp.status = 200
  /\ Len(bills) = 2
  /\ bills[1].customerId = "c1" /\ bills[2].customerId = "c2"
  /\ resp.billId = bills[1].id
  /\ bills[1].dueAmount = 2000
  /\ billInputs[1] = NoInputs
  /\ balance["c1"] = 2000
  /\ balance["c2"] > 0

billedQuantity(product) ==
  SumSeq([i \in 1..Len(bills) |-> quantityOf(bills[i].items, product)])

\* C4: whatever the interleaving of two concurrent createBill requests on one
\* product, the quantity of that product on the bills they persist is at most
\* what its batches held before the requests started.
C4_NoJointOversell ==
  billedQuantity("p1") <= batchSum(InitBatchQty, "p1")

\* the unread notifications of a product, by type
unread(product, type) == notifications[<<product, type>>]

\* C11: after handleStockNotifications(product, q): q = 0 leaves one unread
\* out-of-stock notification and no low-stock one; 0 < q <= reorder level leaves
\* one unread low-stock notification and no out-of-stock one; q above the
\* reorder level leaves neither.
C11_NotificationsFollowBand ==
  resp.op = "notify" =>
    LET product == resp.req.productId
        q == resp.req.quantity
    IN /\ q = 0 => (unread(product, "out-of-stock") = 1 /\ unread(product, "low-stock") = 0)
       /\ (0 < q /\ q <= getReorderLevel(product))
            => (unread(product, "low-stock") = 1 /\ unread(product, "out-of-stock") = 0)
       /\ q > getReorderLevel(product)
            => (unread(product, "low-stock") = 0 /\ unread(product, "out-of-stock") = 0)

\* C11 witness: a call with the quantity exactly at the default reorder level.
C11_Witness ==
  /\ resp.op = "notify"
  /\ resp.req.productId = "p2"
  /\ resp.req.quantity = DEFAULT_REORDER_LEVEL
  /\ unread("p2", "low-stock") = 1

\* C12: after any sequence of calls of the notifier there is at most one unread
\* notification per product and type; a repeated call adds none.
C12_AtMostOneUnread ==
  \A k \in DOMAIN notifications : notifications[k] <= 1

\* C12 witness: a call that repeats the call before it, with its notification there.
C12_Witness ==
  /\ resp.op = "notify"
  /\ resp.req.again
  /\ resp.req.quantity = 0
  /\ unread(resp.req.productId, "out-of-stock") = 1

\* C13: deleteBill removes the bill and nothing else: batch quantities, product
\* quantities and balances are as before, so the customer still owes the
\* deleted bill's due amount.
C13_DeleteOnlyRemovesBill ==
  [][(resp'.op = "delete" /\ resp'.status = 200)
       => /\ \E at \in 1..Len(bills) :
               /\ bills[at].id = resp'.billId
               /\ bills' = SubSeq(bills, 1, at - 1) \o SubSeq(bills, at + 1, Len(bills))
          /\ batchQty' = batchQty
          /\ productQty' = productQty
          /\ balance' = balance
          /\ notifications' = notifications]_vars

\* C13 witness: the only bill of a customer is deleted and the customer still owes.
C13_Witness ==
  /\ resp.op = "delete" /\ resp.status = 200
  /\ bills = <<>>
  /\ balance["c1"] > 0
  /\ productQty["p1"] < batchSum(InitBatchQty, "p1")

\* C14: every created bill gets a number above the numbers of all bills
\* created before it, whatever was deleted in between.
C14_NumbersIncrease ==
  \A i \in 1..Len(issued) : \A j \in 1..Len(issued) : i < j => issued[i] < issued[j]

\* C15: no batch quantity and no cached product quantity is ever below 0,
\* whatever the interleaving of concurrent createBill and updateBill requests.
C15_QuantitiesNotNegative ==
  /\ \A b \in Batches : batchQty[b] >= 0
  /\ \A p \in Products : productQty[p] >= 0

\* C15 witness: a createBill of two units and an updateBill that takes one more
\* unit both succeeded on a cached quantity of 2, which only an interleaving
\* allows, and the stock of p1 is used up.
C15_Witness ==
  /\ \E self \in Procs : /\ proc[self].pc = "done" /\ proc[self].status = 201
                         /\ proc[self].req.items[1].quantity = 2
  /\ \E self \in Procs : /\ proc[self].pc = "done" /\ proc[self].status = 200
                         /\ proc[self].req.items = <<editLine("p1", 3, <<1000>>)>>
  /\ productQty["p1"] = 0
  /\ batchSum(batchQty, "p1") = 0

\* C16: after every completed createBill or updateBill of a sequential run,
\* each product's cached quantity is the sum of its batches' quantities.
C16_CachedIsBatchSum ==
  \A p \in Products : productQty[p] = batchSum(batchQty, p)

\* no request is in flight
Quiescent == \A self \in Procs : proc[self].pc \in {"idle", "done"}

\* C17: when persisting the bill fails in createBill (validators, or a
\* duplicate number under concurrent creates), no stock is left deducted for
\* it: once the createBill requests are over, the units taken out of p1's
\* batches are on stored bills.
C17_NoStockWithoutBill ==
  (/\ Quiescent
   /\ \A self \in Procs : proc[self].op # "update"
   /\ \E self \in Procs : /\ proc[self].status = 400
                          /\ proc[self].error \in {"validation_error", "duplicate_entry"})
    => batchSum(InitBatchQty, "p1") - batchSum(batchQty, "p1") <= billedQuantity("p1")

\* C18: a createBill or updateBill whose notifier failed still answers 201 / 200.
C18_NotifierFailureSwallowed ==
  \A self \in Procs :
    (proc[self].pc = "done" /\ proc[self].error = "notification_failed")
      => proc[self].status \in {200, 201}

\* C19: a bill and the balance do not diverge when the balance update fails:
\* after a single request, run alone, each customer's balance is the sum of the
\* due amounts of the customer's stored bills.
C19_BalanceMatchesBills ==
  (/\ Quiescent
   /\ \E self \in Procs : proc[self].pc = "idle")
    => \A c \in Customers : balance[c] = dueOf(c)

\* C20: between operations the unread notifications of every product are those
\* of the band of its stored quantity: out-of-stock iff the quantity is 0,
\* low-stock iff it is above 0 and at most the reorder level.
C20_NotificationsMatchStock ==
  \A p \in Products :
    /\ unread(p, "out-of-stock") > 0 <=> productQty[p] = 0
    /\ unread(p, "low-stock") > 0 <=> (0 < productQty[p] /\ productQty[p] <= getReorderLevel(p))

\* a createBill step for a request of one line that names a batch, with a
\* customer and a product that exist and a quantity above 0
PinnedStep ==
  /\ resp'.op = "create"
  /\ resp'.req.customerId \in Customers
  /\ Len(resp'.req.items) = 1
  /\ resp'.req.items[1].batchNumber # NoBatch
  /\ resp'.req.items[1].productId \in Products
  /\ resp'.req.items[1].quantity > 0

\* C21: a createBill line that names a batch is satisfied from that batch
\* alone: when the batch exists and holds the requested quantity the bill gets
\* exactly one line item and only that batch and the product's cached quantity
\* go down, by the requested quantity; when the batch is missing or holds less
\* the answer is 400 and no batch changes.
C21_PinnedBatchAlone ==
  [][PinnedStep =>
       LET line == resp'.req.items[1]
           found == findOneBatch(line.productId, line.batchNumber)
       IN IF found # {} /\ \A b \in found : batchQty[b] >= line.quantity
          THEN /\ resp'.status = 201
               /\ Len(bills') = Len(bills) + 1
               /\ Len(bills'[Len(bills')].items) = 1
               /\ batchQty' = [b \in Batches |->
                                 IF b \in found THEN batchQty[b] - line.quantity ELSE batchQty[b]]
               /\ productQty' = [productQty EXCEPT ![line.productId] = @ - line.quantity]
          ELSE /\ resp'.status = 400
               /\ batchQty' = batchQty]_vars

\* C22: a successful createBill lowers, for every product, the cached quantity
\* and the sum of the product's batch quantities by the quantity of that product
\* on the new bill (0 for a product that is not on it), and changes no batch of
\* a product that is not on the bill.
C22_SaleDeductsBilledQuantity ==
  [][(resp'.op = "create" /\ resp'.status = 201)
       => /\ Len(bills') = Len(bills) + 1
          /\ \A p \in Products :
               /\ productQty'[p] = productQty[p] - quantityOf(bills'[Len(bills')].items, p)
               /\ batchSum(batchQty', p)
                    = batchSum(batchQty, p) - quantityOf(bills'[Len(bills')].items, p)
               /\ quantityOf(bills'[Len(bills')].items, p) = 0
                    => \A b \in batchesOf(p) : batchQty'[b] = batchQty[b]]_vars

\* C22 witness: a bill of two lines of p1, one from the oldest batches and one
\* from a named batch, that took three units out of three batches and left p2 alone.
C22_Witness ==
  /\ resp.op = "create" /\ resp.status = 201
  /\ Len(resp.req.items) = 2
  /\ resp.req.items[2].batchNumber = "B1"
  /\ quantityOf(lastBill.items, "p1") = 3
  /\ batchQty = [InitBatchQty EXCEPT !["b2"] = 0, !["b3"] = 0, !["b1"] = 1]
  /\ productQty["p2"] = batchSum(InitBatchQty, "p2")

\* C23: the batches decide what is available: a createBill of one line that
\* names no batch succeeds whenever the product's batches hold the requested
\* quantity in total, also when the cached product quantity is lower.
C23_BatchesDecideAvailability ==
  [][(/\ resp'.op = "create"
      /\ resp'.req.customerId \in Customers
      /\ Len(resp'.req.items) = 1
      /\ resp'.req.items[1].batchNumber = NoBatch
      /\ resp'.req.items[1].productId \in Products
      /\ resp'.req.items[1].quantity > 0
      /\ batchSum(batchQty, resp'.req.items[1].productId) >= resp'.req.items[1].quantity)
       => resp'.status = 201]_vars

\* the lines of a request whose product is on no other line of it
OwnLinesOf(req) ==
  {i \in 1..Len(req.items) :
     \A j \in 1..Len(req.items) : j # i => req.items[j].productId # req.items[i].productId}

\* A successful POST /bills step: every line item of the new bill has a
\* quantity above 0 and total = price x quantity, the subtotal is the sum of the
\* line totals, and for a request line that is the only one of its product the
\* line items are those of the batches that lost stock, in FIFO order, each with
\* the units taken from its batch and the price price(batch), their quantities
\* adding up to the requested quantity.
PricedStep(price(_)) ==
  LET bill == bills'[Len(bills')] IN
  /\ \A k \in 1..Len(bill.items) :
       /\ bill.items[k].quantity > 0
       /\ bill.items[k].total = bill.items[k].price * bill.items[k].quantity
  /\ bill.subtotal = SumSeq([k \in 1..Len(bill.items) |-> bill.items[k].total])
  /\ \A i \in OwnLinesOf(resp'.req) :
       LET line == resp'.req.items[i]
           consumed == SortSeq(SetToSeq({b \in batchesOf(line.productId) :
                                           batchQty'[b] < batchQty[b]}), fifoBefore)
           billed == itemsOf(bill.items, line.productId)
       IN /\ Len(billed) = Len(consumed)
          /\ SumSeq([k \in 1..Len(billed) |-> billed[k].quantity]) = line.quantity
          /\ \A k \in 1..Len(consumed) :
               /\ billed[k].quantity = batchQty[consumed[k]] - batchQty'[consumed[k]]
               /\ billed[k].price = price(consumed[k])

editedIndex(req) == {i \in 1..Len(bills) : bills[i].id = req.billId}

\* the cached quantity of p that reconciling the request against the stored
\* bill's items gives
reconciled(req, p) ==
  productQty[p]
    + SumSeq([i \in 1..Len(bills) |->
                IF bills[i].id = req.billId THEN quantityOf(bills[i].items, p) ELSE 0])
    - quantityOf(req.items, p)

\* C25: after a successful updateBill every product's cached quantity is its
\* value before plus the product's quantity on the bill's previous items minus
\* its quantity on the new items, so the units the bill holds already are not
\* taken again; an edit of a stored bill that would make that value negative for
\* a product is answered 400.
C25_EditReconciles ==
  [][(resp'.op = "update")
       => /\ resp'.status = 200
               => \A p \in Products : productQty'[p] = reconciled(resp'.req, p)
          /\ (/\ editedIndex(resp'.req) # {}
              /\ \E p \in Products : reconciled(resp'.req, p) < 0)
               => resp'.status = 400]_vars

\* C25 witness: the bill of two units of p1 was edited to three units while the
\* cached quantity was 2, and one unit was taken.
C25_Witness ==
  /\ resp.op = "update" /\ resp.status = 200
  /\ resp.req.items = <<editLine("p1", 3, <<1000>>)>>
  /\ quantityOf(bills[1].items, "p1") = 3
  /\ productQty["p1"] = FirstSale.db.productQty["p1"] - 1

\* C25 witness of the rejection: an edit that asks for more of p2 than there is.
C25_RejectedWitness ==
  /\ resp.op = "update" /\ resp.status = 400
  /\ resp.error = "insufficient_product"
  /\ quantityOf(resp.req.items, "p2") > productQty["p2"]

\* C26: no updateBill, successful or rejected, changes the quantity of any
\* batch (the unit costs are fixed in this model: no operation of the bill
\* controller writes one).
C26_EditLeavesBatches ==
  [][(resp'.op = "update") => batchQty' = batchQty]_vars

\* C26 witness: the bill of two units of p1 was cut to one unit; the cached
\* quantity went up by one and the batches are as the sale left them.
C26_Witness ==
  /\ resp.op = "update" /\ resp.status = 200
  /\ resp.req.items = <<editLine("p1", 1, <<1000>>)>>
  /\ productQty["p1"] = FirstSale.db.productQty["p1"] + 1
  /\ batchQty = FirstSale.db.batchQty
  /\ batchSum(batchQty, "p1") < productQty["p1"]

\* C27: an updateBill answered 400 (a product would go negative or no longer
\* exists, or the edited bill fails to persist) leaves the cached quantities of
\* all products, the stored bills and the balances as they were.
C27_RejectedEditPersistsNothing ==
  [][(resp'.op = "update" /\ resp'.status = 400)
       => (productQty' = productQty /\ bills' = bills /\ balance' = balance)]_vars

\* C28: whatever the interleaving of two concurrent updateBill requests on the
\* bill of the first sale, once both are over the customer's balance has moved
\* from its value before them by the stored bill's final due amount minus the
\* bill's due amount before them, and is not below 0.
C28_ConcurrentEditsKeepBalance ==
  (\A self \in Procs : proc[self].pc = "done" /\ proc[self].op = "update")
    => /\ balance["c1"] - FirstSale.db.balance["c1"]
            = bills[1].dueAmount - FirstSale.db.bills[1].dueAmount
       /\ balance["c1"] >= 0

\* C29: whatever the interleaving of concurrent handleStockNotifications calls,
\* a product has an unread out-of-stock and an unread low-stock notification at
\* the same time only while a call for it stands between its upsert and its
\* clear; once all calls are over no product has both.
C29_BothTypesOnlyTransient ==
  \A p \in Products :
    (unread(p, "out-of-stock") > 0 /\ unread(p, "low-stock") > 0)
      => \E self \in Procs : proc[self].pc = "clear" /\ proc[self].req.productId = p

\* C29 witness: a call with quantity 0 and a call with a low quantity for p1
\* are both over and p1 has neither notification, which only an interleaving
\* of their steps gives (upsert, upsert, clear, clear).
C29_Witness ==
  /\ \A self \in Procs : proc[self].pc = "done" /\ proc[self].req.productId = "p1"
  /\ \E self \in Procs : proc[self].req.quantity = 0
  /\ \E self \in Procs : proc[self].req.quantity = 1
  /\ unread("p1", "out-of-stock") = 0
  /\ unread("p1", "low-stock") = 0

\* C29 witness of the transient state: both notifications of p1 are unread
\* while a call is about to clear one of them.
C29_TransientWitness ==
  /\ unread("p1", "out-of-stock") > 0
  /\ unread("p1", "low-stock") > 0
  /\ \E self \in Procs : proc[self].pc = "clear"

\* C30: an updateBill that sends the stored items back and leaves out
\* discountPercent, taxPercent and the other financial inputs (an edit of the
\* notes or the dates only) recomputes with the percentages of the stored bill:
\* the bill's discount, tax, total and due amount and the balances stay as they
\* were.
C30_OmittedPercentsAreKept ==
  [][(resp'.op = "update" /\ inputsOf(resp'.req) = NoInputs)
       => \A i \in 1..Len(bills) :
            (bills[i].id = resp'.req.billId /\ resp'.req.items = resend(bills[i].items))
              => /\ resp'.status = 200
                 /\ bills'[i].discount = bills[i].discount
                 /\ bills'[i].taxAmount = bills[i].taxAmount
                 /\ bills'[i].totalAmount = bills[i].totalAmount
                 /\ bills'[i].dueAmount = bills[i].dueAmount
                 /\ balance' = balance]_vars

====
